---- MODULE Spec2Model ----
(***************************************************************************)
(* The comp! macro of py_comp (src/src/lib.rs): the macro's twelve rules   *)
(* matched against a token stream, the iterator pipeline each rule expands *)
(* to, and the pull-driven evaluation of that pipeline.                    *)
(*                                                                         *)
(* Expression and pattern fragments are opaque to the macro: a fragment is *)
(* one token that carries the index of the clause it was written in        *)
(* (0 for the item expression), and its meaning is looked up there when    *)
(* the expanded code evaluates it.                                         *)
(***************************************************************************)
EXTENDS Integers, Sequences, FiniteSets, TLC

\* The longest clause list an input is written from.
MaxClauses == 4

\* How many entries of its trace (calls and evaluations, items returned) a
\* pipeline over an endless source keeps.
MaxKept == 12

(***************************************************************************)
(* The comprehensions the inputs are written from.                         *)
(***************************************************************************)

\* Items are pairs (first, second), as in the tests' arrays of tuples.
Pairs == << <<1, 11>>, <<2, 12>>, <<3, 13>>, <<4, 14>> >>

ForClause(s) == [k |-> "for", ex |-> s, pats |-> <<>>, bind |-> FALSE]
IfClause(e) == [k |-> "if", ex |-> e, pats |-> <<>>, bind |-> FALSE]
IfLetClause(e, ps, b) == [k |-> "if_let", ex |-> e, pats |-> ps, bind |-> b]
WhileClause == [k |-> "while", ex |-> "first_gt_1", pats |-> <<>>, bind |-> FALSE]

\* for p in <source>: an empty source, two and four pairs, and a source that
\* depends on the item of the enclosing level.
ForClauses == {ForClause(s) : s \in {"p0", "p2", "p4", "dep"}}
\* if first > 1
IfClauses == {IfClause("first_gt_1")}
\* if let 12..=14 = second ; if let y @ 1 | y @ 3 = first
IfLetClauses == {IfLetClause("second", <<12 .. 14>>, FALSE),
                 IfLetClause("first", <<{1}, {3}>>, TRUE)}

\* A source that never ends: the four pairs over and over.
Endless_Never(ex) == FALSE

Endless(ex) == ex = "cyc"

Alphabet == ForClauses \cup IfClauses \cup IfLetClauses \cup {WhileClause}

SeqsUpTo(S, n) == UNION {[1 .. m -> S] : m \in 0 .. n}

\* A source that names the enclosing item cannot be the outermost one; the
\* four pairs are iterated at the outermost level only.
ClauseSeqs == {cs \in SeqsUpTo(Alphabet, MaxClauses) :
                 /\ cs = <<>> \/ cs[1] # ForClause("dep")
                 /\ \A i \in 2 .. Len(cs) : cs[i] # ForClause("p4")}

(***************************************************************************)
(* Tokens.                                                                 *)
(***************************************************************************)
Tok(t) == [t |-> t, cl |-> 0, alt |-> 0]
ExprTok(i) == [t |-> "expr", cl |-> i, alt |-> 0]
PatTok(i, j) == [t |-> "pat", cl |-> i, alt |-> j]

RECURSIVE AltPats(_, _, _)
\* p1 | p2 | ... of clause i, from alternative j on
AltPats(i, j, n) ==
  IF j > n THEN <<>>
  ELSE IF j = n THEN <<PatTok(i, j)>>
  ELSE <<PatTok(i, j), Tok("|")>> \o AltPats(i, j + 1, n)

\* The tokens of clause i of cs, as it is written.
ClauseTokens(cs, i) ==
  CASE cs[i].k = "for" -> <<Tok("for"), PatTok(i, 1), Tok("in"), ExprTok(i)>>
    [] cs[i].k = "if" -> <<Tok("if"), ExprTok(i)>>
    [] cs[i].k = "if_let" ->
         <<Tok("if"), Tok("let")>> \o AltPats(i, 1, Len(cs[i].pats))
           \o <<Tok("="), ExprTok(i)>>
    [] OTHER -> <<Tok("while"), ExprTok(i)>>

\* The clause list has the shape of a comprehension: a for first, and only
\* for, if and if let clauses.
Shaped(cs) ==
  /\ cs # <<>>
  /\ cs[1].k = "for"
  /\ \A i \in 1 .. Len(cs) : cs[i].k \in {"for", "if", "if_let"}

\* How an input is written: with or without the separator after the item
\* expression, without the separator after clause omit (0: none omitted),
\* with or without a trailing separator, and whether it is a direct call of
\* the macro's internal @parse_if rules.
Writing(h, o, tr, int) == [head |-> h, omit |-> o, trail |-> tr, internal |-> int]
Plain == Writing(TRUE, 0, FALSE, FALSE)
Trailing == Writing(TRUE, 0, TRUE, FALSE)
Headless == Writing(FALSE, 0, FALSE, FALSE)
Omitting(j) == Writing(TRUE, j, FALSE, FALSE)
Internal == Writing(TRUE, 0, FALSE, TRUE)

Writings(cs) ==
  {Plain, Internal}
    \cup (IF Shaped(cs)
            THEN {Trailing, Headless} \cup {Omitting(j) : j \in 1 .. Len(cs) - 1}
            ELSE {})

RECURSIVE ClausesFrom(_, _, _)
ClausesFrom(cs, i, w) ==
  IF i > Len(cs) THEN <<>>
  ELSE ClauseTokens(cs, i)
         \o (IF i < Len(cs)
               THEN (IF w.omit = i THEN <<>> ELSE <<Tok(";")>>)
               ELSE (IF w.trail THEN <<Tok(";")>> ELSE <<>>))
         \o ClausesFrom(cs, i + 1, w)

Render(cs, w) ==
  (IF w.internal THEN <<Tok("@parse_if")>> ELSE <<>>)
    \o <<ExprTok(0)>> \o (IF w.head THEN <<Tok(";")>> ELSE <<>>)
    \o ClausesFrom(cs, 1, w)

(***************************************************************************)
(* Matching a token stream against the macro's matchers.  An expr or pat   *)
(* fragment matches one fragment token of its kind (the keyword let does   *)
(* not start an expr fragment); $($rest: tt)* matches whatever follows.    *)
(***************************************************************************)
At(ts, i, t) == i >= 1 /\ i <= Len(ts) /\ ts[i].t = t

\* if $condition: expr, from position i: the position of its last token, or 0
IfEnd(ts, i) == IF At(ts, i, "if") /\ At(ts, i + 1, "expr") THEN i + 1 ELSE 0

RECURSIVE PatsEnd(_, _)
\* $( $if_let_pattern: pat )|+ from position i: the position of its last token, or 0
PatsEnd(ts, i) ==
  IF ~At(ts, i, "pat") THEN 0
  ELSE IF At(ts, i + 1, "|") THEN PatsEnd(ts, i + 2)
  ELSE i

\* if let $( $if_let_pattern: pat )|+ = $if_let_expr: expr, from position i:
\* the position of its last token, or 0
IfLetEnd(ts, i) ==
  IF At(ts, i, "if") /\ At(ts, i + 1, "let") /\ PatsEnd(ts, i + 2) > 0
       /\ At(ts, PatsEnd(ts, i + 2) + 1, "=")
       /\ At(ts, PatsEnd(ts, i + 2) + 2, "expr")
    THEN PatsEnd(ts, i + 2) + 2
    ELSE 0

RECURSIVE SemiIfLets(_, _)
\* $( ; if let ... = expr )* from position p: the position after the match
SemiIfLets(ts, p) ==
  IF At(ts, p, ";") /\ IfLetEnd(ts, p + 1) > 0
    THEN SemiIfLets(ts, IfLetEnd(ts, p + 1) + 1)
    ELSE p

RECURSIVE SemiIfs(_, _)
\* $( ; if $condition: expr )* from position p: the position after the match
SemiIfs(ts, p) ==
  IF At(ts, p, ";") /\ IfEnd(ts, p + 1) > 0
    THEN SemiIfs(ts, IfEnd(ts, p + 1) + 1)
    ELSE p

RECURSIVE SemiIfGroups(_, _)
\* $( ; if expr $( ; if let ... = expr )* )+ from position p: the position
\* after the match, or 0
SemiIfGroups(ts, p) ==
  IF At(ts, p, ";") /\ IfEnd(ts, p + 1) > 0
    THEN LET q == SemiIfLets(ts, IfEnd(ts, p + 1) + 1)
             r == SemiIfGroups(ts, q)
         IN IF r = 0 THEN q ELSE r
    ELSE 0

RECURSIVE SemiIfLetGroups(_, _)
\* $( ; if let ... = expr $( ; if expr )* )+ from position p: the position
\* after the match, or 0
SemiIfLetGroups(ts, p) ==
  IF At(ts, p, ";") /\ IfLetEnd(ts, p + 1) > 0
    THEN LET q == SemiIfs(ts, IfLetEnd(ts, p + 1) + 1)
             r == SemiIfLetGroups(ts, q)
         IN IF r = 0 THEN q ELSE r
    ELSE 0

RECURSIVE IfLetsSemi(_, _)
\* $( if let ... = expr; )* from position p: the position after the match
IfLetsSemi(ts, p) ==
  IF IfLetEnd(ts, p) > 0 /\ At(ts, IfLetEnd(ts, p) + 1, ";")
    THEN IfLetsSemi(ts, IfLetEnd(ts, p) + 2)
    ELSE p

RECURSIVE IfsSemi(_, _)
\* $( if $condition: expr; )* from position p: the position after the match
IfsSemi(ts, p) ==
  IF IfEnd(ts, p) > 0 /\ At(ts, IfEnd(ts, p) + 1, ";")
    THEN IfsSemi(ts, IfEnd(ts, p) + 2)
    ELSE p

RECURSIVE IfSemiGroups(_, _)
\* $( if expr; $( if let ... = expr; )* )+ from position p: the position
\* after the match, or 0
IfSemiGroups(ts, p) ==
  IF IfEnd(ts, p) > 0 /\ At(ts, IfEnd(ts, p) + 1, ";")
    THEN LET q == IfLetsSemi(ts, IfEnd(ts, p) + 2)
             r == IfSemiGroups(ts, q)
         IN IF r = 0 THEN q ELSE r
    ELSE 0

RECURSIVE IfLetSemiGroups(_, _)
\* $( if let ... = expr; $( if expr; )* )+ from position p: the position
\* after the match, or 0
IfLetSemiGroups(ts, p) ==
  IF IfLetEnd(ts, p) > 0 /\ At(ts, IfLetEnd(ts, p) + 1, ";")
    THEN LET q == IfsSemi(ts, IfLetEnd(ts, p) + 2)
             r == IfLetSemiGroups(ts, q)
         IN IF r = 0 THEN q ELSE r
    ELSE 0

\* OptSemiEnd without the $(;)?
OptSemiEnd_NoTrailing(ts, p) == p = Len(ts) + 1

\* OptSemiEnd that does not look for the end of the input
OptSemiEnd_AnyRest(ts, p) == p <= Len(ts) + 1

\* $(;)? and then the end of the input, from position p
OptSemiEnd(ts, p) == p = Len(ts) + 1 \/ (p = Len(ts) /\ At(ts, p, ";"))

\* @parse_if $item_expr: expr;
ParseIfHead(ts) == At(ts, 1, "@parse_if") /\ At(ts, 2, "expr") /\ At(ts, 3, ";")

\* $item_expr: expr; for $pattern: pat in $into_iterator: expr
ForHead(ts) ==
  /\ At(ts, 1, "expr") /\ At(ts, 2, ";") /\ At(ts, 3, "for")
  /\ At(ts, 4, "pat") /\ At(ts, 5, "in") /\ At(ts, 6, "expr")

Rest(ts, p) == SubSeq(ts, p, Len(ts))

\* The matchers of the twelve rules, in the order the macro lists them.
MatchParseIf_If(ts) == ParseIfHead(ts) /\ IfEnd(ts, 4) = Len(ts)
MatchParseIf_IfLet(ts) ==
  ParseIfHead(ts) /\ IfLetEnd(ts, 4) > 0 /\ IfLetEnd(ts, 4) = Len(ts)
MatchParseIf_IfFor(ts) ==
  ParseIfHead(ts) /\ IfEnd(ts, 4) > 0 /\ At(ts, 6, ";") /\ At(ts, 7, "for")
MatchParseIf_IfLetFor(ts) ==
  /\ ParseIfHead(ts) /\ IfLetEnd(ts, 4) > 0
  /\ At(ts, IfLetEnd(ts, 4) + 1, ";") /\ At(ts, IfLetEnd(ts, 4) + 2, "for")
MatchParseIf_IfIf(ts) ==
  ParseIfHead(ts) /\ IfEnd(ts, 4) > 0 /\ At(ts, 6, ";") /\ At(ts, 7, "if")
MatchParseIf_IfLetIf(ts) ==
  /\ ParseIfHead(ts) /\ IfLetEnd(ts, 4) > 0
  /\ At(ts, IfLetEnd(ts, 4) + 1, ";") /\ At(ts, IfLetEnd(ts, 4) + 2, "if")
MatchForIn(ts) == ForHead(ts) /\ OptSemiEnd(ts, 7)
MatchForInIfChain(ts) ==
  ForHead(ts) /\ SemiIfGroups(ts, 7) > 0 /\ OptSemiEnd(ts, SemiIfGroups(ts, 7))
MatchForInIfLetChain(ts) ==
  /\ ForHead(ts) /\ SemiIfLetGroups(ts, 7) > 0
  /\ OptSemiEnd(ts, SemiIfLetGroups(ts, 7))
MatchForInFor(ts) == ForHead(ts) /\ At(ts, 7, ";") /\ At(ts, 8, "for")
MatchForInIfChainFor(ts) ==
  /\ ForHead(ts) /\ At(ts, 7, ";") /\ IfSemiGroups(ts, 8) > 0
  /\ At(ts, IfSemiGroups(ts, 8), "for")
MatchForInIfLetChainFor(ts) ==
  /\ ForHead(ts) /\ At(ts, 7, ";") /\ IfLetSemiGroups(ts, 8) > 0
  /\ At(ts, IfLetSemiGroups(ts, 8), "for")

(***************************************************************************)
(* What the rules expand to.  The expansion is kept as a tree: the         *)
(* iterator adapters of the public rules, and the if / if let expressions  *)
(* (else None) of the @parse_if rules.                                     *)
(***************************************************************************)
ExprNode(e) == [op |-> "expr", e |-> e]
SomeNode(x) == [op |-> "Some", of |-> x]
IfNode(c, x) == [op |-> "if", cond |-> c, then |-> x]
IfLetNode(ps, e, x) == [op |-> "if_let", pats |-> ps, ex |-> e, then |-> x]
MapNode(it, p, f) == [op |-> "map", it |-> it, pat |-> p, f |-> f]
FilterMapNode(it, p, f) == [op |-> "filter_map", it |-> it, pat |-> p, f |-> f]
FlatMapNode(it, p, f) == [op |-> "flat_map", it |-> it, pat |-> p, f |-> f]
FlattenNode(x) == [op |-> "flatten", of |-> x]
\* no rule matches: the invocation does not compile
NoRule == [op |-> "no_rule"]

IsPatTok(x) == x.t = "pat"
\* the $if_let_pattern fragments of the if let that starts at position i
IfLetPats(ts, i) == SelectSeq(SubSeq(ts, i + 2, PatsEnd(ts, i + 2)), IsPatTok)

RECURSIVE comp(_)

\* @parse_if if
ParseIf_If(ts) == IfNode(ts[5], SomeNode(ExprNode(ts[2])))

\* @parse_if if-let
ParseIf_IfLet(ts) ==
  IfLetNode(IfLetPats(ts, 4), ts[IfLetEnd(ts, 4)], SomeNode(ExprNode(ts[2])))

\* ParseIf_IfFor with the nested comp!(...) outside the if
ParseIf_IfFor_Unguarded(ts) ==
  SomeNode(comp(<<ts[2], Tok(";"), Tok("for")>> \o Rest(ts, 8)))

\* @parse_if if for ...
ParseIf_IfFor(ts) ==
  IfNode(ts[5], SomeNode(comp(<<ts[2], Tok(";"), Tok("for")>> \o Rest(ts, 8))))

\* ParseIf_IfLetFor with the nested comp!(...) outside the if let
ParseIf_IfLetFor_Unguarded(ts) ==
  SomeNode(comp(<<ts[2], Tok(";"), Tok("for")>> \o Rest(ts, IfLetEnd(ts, 4) + 3)))

\* @parse_if if-let for ...
ParseIf_IfLetFor(ts) ==
  IfLetNode(IfLetPats(ts, 4), ts[IfLetEnd(ts, 4)],
            SomeNode(comp(<<ts[2], Tok(";"), Tok("for")>>
                            \o Rest(ts, IfLetEnd(ts, 4) + 3))))

\* @parse_if if if ...
ParseIf_IfIf(ts) ==
  IfNode(ts[5],
         comp(<<Tok("@parse_if"), ts[2], Tok(";"), Tok("if")>> \o Rest(ts, 8)))

\* ParseIf_IfLetIf with the rest of the chain left out of the expansion
ParseIf_IfLetIf_NoRest(ts) ==
  IfLetNode(IfLetPats(ts, 4), ts[IfLetEnd(ts, 4)], SomeNode(ExprNode(ts[2])))

\* @parse_if if-let if ...
ParseIf_IfLetIf(ts) ==
  IfLetNode(IfLetPats(ts, 4), ts[IfLetEnd(ts, 4)],
            comp(<<Tok("@parse_if"), ts[2], Tok(";"), Tok("if")>>
                   \o Rest(ts, IfLetEnd(ts, 4) + 3)))

\* for in
ForIn(ts) == MapNode(ts[6], ts[4], ExprNode(ts[1]))

\* ForInIfChain with the guard chain left out of the expansion
ForInIfChain_NoGuard(ts) == MapNode(ts[6], ts[4], ExprNode(ts[1]))

\* for in $( if $( if-let )* )+
ForInIfChain(ts) ==
  FilterMapNode(ts[6], ts[4],
                comp(<<Tok("@parse_if"), ts[1]>>
                       \o SubSeq(ts, 7, SemiIfGroups(ts, 7) - 1)))

\* ForInIfLetChain with the guard chain left out of the expansion
ForInIfLetChain_NoGuard(ts) == MapNode(ts[6], ts[4], ExprNode(ts[1]))

\* for in $( if-let $( if )* )+
ForInIfLetChain(ts) ==
  FilterMapNode(ts[6], ts[4],
                comp(<<Tok("@parse_if"), ts[1]>>
                       \o SubSeq(ts, 7, SemiIfLetGroups(ts, 7) - 1)))

\* ForInFor with the nested levels left out of the expansion
ForInFor_NoRest(ts) == MapNode(ts[6], ts[4], ExprNode(ts[1]))

\* for in for ...
ForInFor(ts) ==
  FlatMapNode(ts[6], ts[4], comp(<<ts[1], Tok(";"), Tok("for")>> \o Rest(ts, 9)))

\* ForInIfChainFor with the guard chain left out of the expansion
ForInIfChainFor_NoGuard(ts) ==
  FlatMapNode(ts[6], ts[4],
              comp(<<ts[1], Tok(";"), Tok("for")>> \o Rest(ts, IfSemiGroups(ts, 8) + 1)))

\* for in $( if $( if-let )* )+ for ...
ForInIfChainFor(ts) ==
  FlattenNode(FilterMapNode(ts[6], ts[4],
                comp(<<Tok("@parse_if"), ts[1], Tok(";")>>
                       \o SubSeq(ts, 8, IfSemiGroups(ts, 8) - 1)
                       \o <<Tok("for")>> \o Rest(ts, IfSemiGroups(ts, 8) + 1))))

\* ForInIfLetChainFor without the .flatten()
ForInIfLetChainFor_NoFlatten(ts) ==
  FilterMapNode(ts[6], ts[4],
                comp(<<Tok("@parse_if"), ts[1], Tok(";")>>
                       \o SubSeq(ts, 8, IfLetSemiGroups(ts, 8) - 1)
                       \o <<Tok("for")>> \o Rest(ts, IfLetSemiGroups(ts, 8) + 1)))

\* for in $( if-let $( if )* )+ for ...
ForInIfLetChainFor(ts) ==
  FlattenNode(FilterMapNode(ts[6], ts[4],
                comp(<<Tok("@parse_if"), ts[1], Tok(";")>>
                       \o SubSeq(ts, 8, IfLetSemiGroups(ts, 8) - 1)
                       \o <<Tok("for")>> \o Rest(ts, IfLetSemiGroups(ts, 8) + 1))))

\* comp!(ts): the first rule whose matcher matches is expanded.
comp(ts) ==
  IF MatchParseIf_If(ts) THEN ParseIf_If(ts)
  ELSE IF MatchParseIf_IfLet(ts) THEN ParseIf_IfLet(ts)
  ELSE IF MatchParseIf_IfFor(ts) THEN ParseIf_IfFor(ts)
  ELSE IF MatchParseIf_IfLetFor(ts) THEN ParseIf_IfLetFor(ts)
  ELSE IF MatchParseIf_IfIf(ts) THEN ParseIf_IfIf(ts)
  ELSE IF MatchParseIf_IfLetIf(ts) THEN ParseIf_IfLetIf(ts)
  ELSE IF MatchForIn(ts) THEN ForIn(ts)
  ELSE IF MatchForInIfChain(ts) THEN ForInIfChain(ts)
  ELSE IF MatchForInIfLetChain(ts) THEN ForInIfLetChain(ts)
  ELSE IF MatchForInFor(ts) THEN ForInFor(ts)
  ELSE IF MatchForInIfChainFor(ts) THEN ForInIfChainFor(ts)
  ELSE IF MatchForInIfLetChainFor(ts) THEN ForInIfLetChainFor(ts)
  ELSE NoRule

RECURSIVE Compiles(_)
\* The expansion compiles unless some (nested) invocation matched no rule.
Compiles(x) ==
  CASE x.op = "no_rule" -> FALSE
    [] x.op = "expr" -> TRUE
    [] x.op \in {"Some", "flatten"} -> Compiles(x.of)
    [] x.op \in {"if", "if_let"} -> Compiles(x.then)
    [] OTHER -> Compiles(x.f)

\* The expansion is an iterator (the rules for ... expand to one; the
\* @parse_if rules expand to an Option).
IsPipeline(x) == x.op \in {"map", "filter_map", "flat_map", "flatten"}

(***************************************************************************)
(* The meaning of the opaque fragments.                                    *)
(***************************************************************************)
NoEnv == [items |-> <<>>, binds |-> <<>>]
Last(s) == s[Len(s)]

\* The value of the source expression named ex where env is bound.
SourceItems(ex, env) ==
  CASE ex = "p0" -> <<>>
    [] ex = "p2" -> SubSeq(Pairs, 1, 2)
    [] ex = "p4" -> Pairs
    \* one period of the endless source
    [] ex = "cyc" -> Pairs
    [] OTHER -> IF env.items = <<>> THEN <<>>
                ELSE SubSeq(Pairs, 1, Last(env.items)[1] % 3)

\* The value of the condition or if-let expression named ex where env is bound.
ExprValue(ex, env) ==
  CASE ex = "first_gt_1" -> Last(env.items)[1] > 1
    [] ex = "first_odd" -> Last(env.items)[1] % 2 = 1
    [] ex = "first" -> Last(env.items)[1]
    [] OTHER -> Last(env.items)[2]

\* The item expression yields everything that is bound.
ItemValue(env) == env

(***************************************************************************)
(* The state.                                                              *)
(***************************************************************************)
VARIABLES
  clauses,  \* the clause list the input was written from
  tokens,   \* the macro's input, until it is expanded
  ast,      \* the expansion
  pc,       \* "written", "rejected", "option", "expanded", then the
            \* iterator: "idle", "next" (in next()), "eval" (in the closure), "done"
  stk,      \* the iterators being driven, outermost first
  cur,      \* the expression of the closure body being evaluated
  cenv,     \* what is bound where cur is evaluated
  out,      \* the items the iterator has returned
  log       \* the calls of next(), the items bound by a for pattern and the
            \* fragments evaluated so far, in order

vars == <<clauses, tokens, ast, pc, stk, cur, cenv, out, log>>

Nothing == [op |-> "nothing"]

\* The iterator adapter of a pipeline (under its .flatten(), if any).
Adapter(node) == IF node.op = "flatten" THEN node.of ELSE node

\* The positions, level by level, of the candidate being processed.
Path == [i \in 1 .. Len(stk) |-> stk[i].pos]

Event(ev, c, ok) == [ev |-> ev, cl |-> c, path |-> Path, ok |-> ok]

\* The pipeline iterates a source that never ends.
Unending == \E i \in 1 .. Len(clauses) : clauses[i] = ForClause("cyc")

\* The trace with one more entry; of an unending pipeline the first MaxKept
\* entries are kept.
Record(tr, x) == IF Unending /\ Len(tr) >= MaxKept THEN tr ELSE Append(tr, x)

\* NewFrame with a closure that does not capture what is bound around it
NewFrame_NoCapture(node, env) ==
  [node |-> node, env |-> NoEnv, pos |-> 0,
   items |-> SourceItems(clauses[Adapter(node).it.cl].ex, env),
   endless |-> Endless(clauses[Adapter(node).it.cl].ex)]

\* let into_iterator = $into_iterator; into_iterator.into_iter().<adapter>(...)
\* evaluated where env is bound: the source expression is evaluated now.
NewFrame(node, env) ==
  [node |-> node, env |-> env, pos |-> 0,
   items |-> SourceItems(clauses[Adapter(node).it.cl].ex, env),
   endless |-> Endless(clauses[Adapter(node).it.cl].ex)]

Init ==
  /\ clauses \in ClauseSeqs
  /\ tokens \in {Render(clauses, w) : w \in Writings(clauses)}
  /\ ast = Nothing
  /\ pc = "written"
  /\ stk = <<>>
  /\ cur = Nothing
  /\ cenv = NoEnv
  /\ out = <<>>
  /\ log = <<>>

\* The compiler expands the invocation.
Expand ==
  /\ pc = "written"
  /\ ast' = comp(tokens)
  /\ pc' = IF ~Compiles(ast') THEN "rejected"
           ELSE IF IsPipeline(ast') THEN "expanded"
           ELSE "option"
  /\ tokens' = IF Compiles(ast') THEN <<>> ELSE tokens
  /\ UNCHANGED <<clauses, stk, cur, cenv, out, log>>

\* Construct that leaves the source expression to the first call of next()
Construct_Lazy ==
  /\ pc = "expanded"
  /\ stk' = <<NewFrame(ast, NoEnv)>>
  /\ pc' = "idle"
  /\ UNCHANGED <<clauses, tokens, ast, cur, cenv, out, log>>

\* The comp!(...) expression is evaluated: it builds the iterator.
Construct ==
  /\ pc = "expanded"
  /\ stk' = <<NewFrame(ast, NoEnv)>>
  /\ log' = Record(log, Event("source", Adapter(ast).it.cl, TRUE))
  /\ pc' = "idle"
  /\ UNCHANGED <<clauses, tokens, ast, cur, cenv, out>>

\* The consumer calls next().
Pull ==
  /\ pc = "idle"
  /\ pc' = "next"
  /\ log' = Record(log, Event("pull", 0, TRUE))
  /\ UNCHANGED <<clauses, tokens, ast, stk, cur, cenv, out>>

\* Advance that hands the closure the item it handed it before
Advance_Stuck ==
  /\ pc = "next"
  /\ LET n == Len(stk)
         top == stk[n]
         nxt == IF top.pos < Len(top.items) THEN top.pos + 1 ELSE 1
     IN IF top.pos < Len(top.items) \/ (top.endless /\ top.items # <<>>)
          THEN /\ stk' = [stk EXCEPT ![n].pos = IF n = 1 THEN nxt ELSE top.pos]
               /\ cur' = Adapter(top.node).f
               /\ cenv' = [top.env EXCEPT
                             !.items = Append(top.env.items, top.items[nxt])]
               /\ log' = Record(log, [Event("bind", Adapter(top.node).it.cl, TRUE)
                                        EXCEPT !.path = [Path EXCEPT ![n] = nxt]])
               /\ pc' = "eval"
          ELSE /\ stk' = SubSeq(stk, 1, n - 1)
               /\ pc' = IF n = 1 THEN "done" ELSE "next"
               /\ UNCHANGED <<cur, cenv, log>>
  /\ UNCHANGED <<clauses, tokens, ast, out>>

\* next() advances the innermost iterator's source: an item is bound by the
\* for pattern and handed to the closure; at its end the iterator is dropped
\* and next() goes on with the enclosing one, or returns None.  An endless
\* source has no end: its next item is the first of the next period.
Advance ==
  /\ pc = "next"
  /\ LET n == Len(stk)
         top == stk[n]
         nxt == IF top.pos < Len(top.items) THEN top.pos + 1 ELSE 1
     IN IF top.pos < Len(top.items) \/ (top.endless /\ top.items # <<>>)
          THEN /\ stk' = [stk EXCEPT ![n].pos = nxt]
               /\ cur' = Adapter(top.node).f
               /\ cenv' = [top.env EXCEPT
                             !.items = Append(top.env.items, top.items[nxt])]
               /\ log' = Record(log, [Event("bind", Adapter(top.node).it.cl, TRUE)
                                        EXCEPT !.path = [Path EXCEPT ![n] = nxt]])
               /\ pc' = "eval"
          ELSE /\ stk' = SubSeq(stk, 1, n - 1)
               /\ pc' = IF n = 1 THEN "done" ELSE "next"
               /\ UNCHANGED <<cur, cenv, log>>
  /\ UNCHANGED <<clauses, tokens, ast, out>>

\* EvalIf without the else { None }: the body is evaluated either way
EvalIf_NoShortCircuit ==
  /\ pc = "eval"
  /\ cur.op = "if"
  /\ log' = Record(log, Event("if", cur.cond.cl, ExprValue(clauses[cur.cond.cl].ex, cenv)))
  /\ cur' = cur.then
  /\ pc' = "eval"
  /\ UNCHANGED <<clauses, tokens, ast, stk, cenv, out>>

\* if $condition { ... } else { None }
EvalIf ==
  /\ pc = "eval"
  /\ cur.op = "if"
  /\ LET ok == ExprValue(clauses[cur.cond.cl].ex, cenv)
     IN /\ log' = Record(log, Event("if", cur.cond.cl, ok))
        /\ IF ok THEN /\ cur' = cur.then
                      /\ pc' = "eval"
                 ELSE /\ cur' = Nothing
                      /\ pc' = "next"
  /\ UNCHANGED <<clauses, tokens, ast, stk, cenv, out>>

\* Matches with only the first of the alternative patterns tried
Matches_FirstPattern(ps, v) == v \in clauses[ps[1].cl].pats[ps[1].alt]

\* Whether the value v matches one of the patterns ps.
Matches(ps, v) == \E j \in 1 .. Len(ps) : v \in clauses[ps[j].cl].pats[ps[j].alt]

\* EvalIfLet whose pattern binds nothing for what follows
EvalIfLet_Unbound ==
  /\ pc = "eval"
  /\ cur.op = "if_let"
  /\ LET v == ExprValue(clauses[cur.ex.cl].ex, cenv)
         ok == Matches(cur.pats, v)
     IN /\ log' = Record(log, Event("if_let", cur.ex.cl, ok))
        /\ IF ok THEN /\ cur' = cur.then
                      /\ pc' = "eval"
                 ELSE /\ cur' = Nothing
                      /\ pc' = "next"
  /\ UNCHANGED <<clauses, tokens, ast, stk, cenv, out>>

\* if let $( $if_let_pattern )|+ = $if_let_expr { ... } else { None }
EvalIfLet ==
  /\ pc = "eval"
  /\ cur.op = "if_let"
  /\ LET v == ExprValue(clauses[cur.ex.cl].ex, cenv)
         ok == Matches(cur.pats, v)
     IN /\ log' = Record(log, Event("if_let", cur.ex.cl, ok))
        /\ IF ok THEN /\ cur' = cur.then
                      /\ cenv' = IF clauses[cur.pats[1].cl].bind
                                   THEN [cenv EXCEPT !.binds = Append(cenv.binds, v)]
                                   ELSE cenv
                      /\ pc' = "eval"
                 ELSE /\ cur' = Nothing
                      /\ cenv' = cenv
                      /\ pc' = "next"
  /\ UNCHANGED <<clauses, tokens, ast, stk, out>>

\* The value the closure returns, under the Some(...) of a filter_map closure.
Returned(x) == IF x.op = "Some" THEN x.of ELSE x

\* EvalItem that goes on to the next candidate instead of returning from next()
EvalItem_Eager ==
  /\ pc = "eval"
  /\ cur.op \in {"Some", "expr"}
  /\ Returned(cur).op = "expr"
  /\ out' = Record(out, ItemValue(cenv))
  /\ log' = Record(log, Event("item", Returned(cur).e.cl, TRUE))
  /\ cur' = Nothing
  /\ pc' = "next"
  /\ UNCHANGED <<clauses, tokens, ast, stk, cenv>>

\* The closure evaluates $item_expr: next() returns the item.
EvalItem ==
  /\ pc = "eval"
  /\ cur.op \in {"Some", "expr"}
  /\ Returned(cur).op = "expr"
  /\ out' = Record(out, ItemValue(cenv))
  /\ log' = Record(log, Event("item", Returned(cur).e.cl, TRUE))
  /\ cur' = Nothing
  /\ pc' = "idle"
  /\ UNCHANGED <<clauses, tokens, ast, stk, cenv>>

\* The closure evaluates the nested comp!(...): it builds the inner iterator,
\* which flat_map / flatten drives next.
Enter ==
  /\ pc = "eval"
  /\ IsPipeline(Returned(cur))
  /\ stk' = Append(stk, NewFrame(Returned(cur), cenv))
  /\ log' = Record(log, Event("source", Adapter(Returned(cur)).it.cl, TRUE))
  /\ cur' = Nothing
  /\ pc' = "next"
  /\ UNCHANGED <<clauses, tokens, ast, cenv, out>>

Next == Expand \/ Construct \/ Pull \/ Advance \/ EvalIf \/ EvalIfLet \/ EvalItem \/ Enter

Spec == Init /\ [][Next]_vars


\* The comprehensions over an endless outermost source: one or two clauses
\* follow it.
InfSeqs ==
  {<<ForClause("cyc")>> \o t :
     t \in SeqsUpTo({ForClause("p0"), ForClause("p2"), ForClause("dep")}
                      \cup IfClauses \cup IfLetClauses, 2) \ {<<>>}}

InitInf ==
  /\ clauses \in InfSeqs
  /\ tokens = Render(clauses, Plain)
  /\ ast = Nothing
  /\ pc = "written"
  /\ stk = <<>>
  /\ cur = Nothing
  /\ cenv = NoEnv
  /\ out = <<>>
  /\ log = <<>>

\* What a call of next() does until it returns.
Running == Advance \/ EvalIf \/ EvalIfLet \/ EvalItem \/ Enter

\* A call of next() is synchronous code: once called it keeps running.  The
\* consumer is free to stop calling it.
SpecInf == InitInf /\ [][Next]_vars /\ WF_vars(Running)

\* The consumer drives the iterator to its end: the comp!(...) expression is
\* evaluated and a loop over the iterator, or collect(), calls next() until
\* it returns None.
SpecDriven == Init /\ [][Next]_vars /\ WF_vars(Construct \/ Pull \/ Running)

(***************************************************************************)
(* The nested loops a clause list stands for: for loops over the sources,  *)
(* the guards tested in order inside them, the item pushed innermost.      *)
(***************************************************************************)
RECURSIVE Flat(_)
\* the concatenation of a sequence of sequences
Flat(ss) == IF ss = <<>> THEN <<>> ELSE ss[1] \o Flat(SubSeq(ss, 2, Len(ss)))

WithItem(env, x) == [env EXCEPT !.items = Append(env.items, x)]
WithBind(env, v) == [env EXCEPT !.binds = Append(env.binds, v)]
Accepted(c) == UNION {c.pats[j] : j \in 1 .. Len(c.pats)}

RECURSIVE Loops(_, _, _)
\* what the loops of clauses i.. of cs push, run where env is bound
Loops(cs, i, env) ==
  IF i > Len(cs) THEN <<ItemValue(env)>>
  ELSE CASE cs[i].k = "for" ->
              LET xs == SourceItems(cs[i].ex, env)
              IN Flat([j \in 1 .. Len(xs) |-> Loops(cs, i + 1, WithItem(env, xs[j]))])
         [] cs[i].k = "if" ->
              IF ExprValue(cs[i].ex, env) THEN Loops(cs, i + 1, env) ELSE <<>>
         [] cs[i].k = "if_let" ->
              IF ExprValue(cs[i].ex, env) \in Accepted(cs[i])
                THEN Loops(cs, i + 1,
                           IF cs[i].bind THEN WithBind(env, ExprValue(cs[i].ex, env))
                           ELSE env)
                ELSE <<>>
         \* a filter that accepts what a binder's patterns accept, binding nothing
         [] OTHER ->
              IF ExprValue(cs[i].ex, env) \in Accepted(cs[i])
                THEN Loops(cs, i + 1, env)
                ELSE <<>>

\* The input is the comprehension itself, with or without a trailing separator.
WellWritten ==
  /\ Shaped(clauses)
  /\ tokens # <<>>
  /\ tokens \in {Render(clauses, Plain), Render(clauses, Trailing)}

\* The macro has rejected a comprehension written as it should be.
RejectedWellWritten == pc = "rejected" /\ WellWritten

Levels(cs) == {i \in 1 .. Len(cs) : cs[i].k = "for"}
Guards(cs) == {i \in 1 .. Len(cs) : cs[i].k \in {"if", "if_let"}}

\* C1. Equivalence law: every comprehension (one or more for levels, any
\* guard chains) is accepted, and driven to completion its iterator has
\* returned, in order, exactly what the nested loops with the same patterns,
\* guards and item expression push.
C1_Equivalence ==
  /\ ~RejectedWellWritten
  /\ (Shaped(clauses) /\ pc = "done") => out = Loops(clauses, 1, NoEnv)

\* C1 witness: a run to completion over two levels with a guard, several items out.
C1_Witness ==
  /\ pc = "done"
  /\ Cardinality(Levels(clauses)) >= 2
  /\ Guards(clauses) # {}
  /\ Len(out) >= 2

\* Three unguarded levels over the independent sources.
Unguarded3 ==
  /\ Len(clauses) = 3
  /\ \A i \in 1 .. 3 : clauses[i].k = "for" /\ clauses[i].ex \in {"p0", "p2", "p4"}

\* C2. Flattening depth and order: three unguarded levels over independent
\* sources X, Y, Z of sizes m, n, p return exactly m*n*p items, and the item
\* at position i*n*p + j*p + k (from 0) is the item expression of
\* (X[i], Y[j], Z[k]).
C2_Flattening ==
  /\ Unguarded3 => ~RejectedWellWritten
  /\ (Unguarded3 /\ pc = "done") =>
       LET X == SourceItems(clauses[1].ex, NoEnv)
           Y == SourceItems(clauses[2].ex, NoEnv)
           Z == SourceItems(clauses[3].ex, NoEnv)
           m == Len(X)
           n == Len(Y)
           p == Len(Z)
       IN /\ Len(out) = m * n * p
          /\ \A i \in 0 .. m - 1 : \A j \in 0 .. n - 1 : \A k \in 0 .. p - 1 :
               out[i * n * p + j * p + k + 1]
                 = ItemValue([items |-> <<X[i + 1], Y[j + 1], Z[k + 1]>>,
                              binds |-> <<>>])

\* C2 witness: 4 * 2 * 2 items returned from three unguarded levels.
C2_Witness == Unguarded3 /\ pc = "done" /\ Len(out) = 16

IsGuardEvent(e) == e.ev \in {"if", "if_let"}
IsPrefix(a, b) == Len(a) <= Len(b) /\ SubSeq(b, 1, Len(a)) = a

\* C3. Short-circuit within a guard chain: for one candidate the clauses of a
\* chain are evaluated left to right, and once a clause has rejected the
\* candidate no later clause of the chain and not the item expression is
\* evaluated for it.  (Stated of the latest evaluation against all earlier.)
C3_ShortCircuit ==
  LET n == Len(log)
  IN \A m \in 1 .. n - 1 :
       (/\ IsGuardEvent(log[m])
        /\ log[n].ev \in {"if", "if_let", "item"}
        /\ log[m].path = log[n].path)
         => /\ log[m].ok
            /\ IsGuardEvent(log[n]) => log[m].cl < log[n].cl

\* C3 witness: a clause rejected a candidate, a later clause of the same chain
\* exists, and the run went on to evaluate something for the next candidate.
C3_Witness ==
  \E m \in 1 .. Len(log) - 1 :
    /\ IsGuardEvent(log[m]) /\ ~log[m].ok
    /\ log[m].cl < Len(clauses)
    /\ clauses[log[m].cl + 1].k \in {"if", "if_let"}
    /\ IsGuardEvent(log[Len(log)])

RECURSIVE ChainResult(_, _, _, _)
\* <<what is bound after the guards i .. c-1 of cs>>, or <<>> if one rejects
ChainResult(cs, i, c, env) ==
  IF i >= c THEN <<env>>
  ELSE IF cs[i].k = "if"
    THEN (IF ExprValue(cs[i].ex, env) THEN ChainResult(cs, i + 1, c, env) ELSE <<>>)
    ELSE (IF ExprValue(cs[i].ex, env) \in Accepted(cs[i])
            THEN ChainResult(cs, i + 1, c,
                             IF cs[i].bind THEN WithBind(env, ExprValue(cs[i].ex, env))
                             ELSE env)
            ELSE <<>>)

\* The outermost level has a guard chain and a further level follows it.
GuardedThenFor ==
  /\ Shaped(clauses) /\ Len(clauses) >= 3
  /\ clauses[2].k # "for"
  /\ \E c \in 3 .. Len(clauses) : clauses[c].k = "for"

SecondLevel == CHOOSE c \in 2 .. Len(clauses) :
                 clauses[c].k = "for" /\ \A i \in 2 .. c - 1 : clauses[i].k # "for"

\* C4. Guard before a nested level: once a guard has rejected an item nothing
\* is evaluated under that item (no inner source expression, guard or item
\* expression); an inner source expression is evaluated only for an item that
\* every clause of the enclosing chain accepted; and the items that pass
\* expand to exactly the inner pipeline's items.
C4_GuardBeforeLevel ==
  /\ LET n == Len(log)
     IN /\ \A m \in 1 .. n - 1 : ~log[m].ok => ~IsPrefix(log[m].path, log[n].path)
        /\ (n > 0 /\ log[n].ev = "source" /\ Shaped(clauses)) =>
             \A g \in 1 .. log[n].cl - 1 :
               (\A i \in g .. log[n].cl - 1 : clauses[i].k # "for")
                 => \E m \in 1 .. n - 1 :
                      log[m].cl = g /\ log[m].path = log[n].path /\ log[m].ok
  /\ (GuardedThenFor /\ pc = "done") =>
       LET xs == SourceItems(clauses[1].ex, NoEnv)
           c == SecondLevel
           after(j) == ChainResult(clauses, 2, c, WithItem(NoEnv, xs[j]))
       IN out = Flat([j \in 1 .. Len(xs) |->
                        IF after(j) = <<>> THEN <<>>
                        ELSE Loops(clauses, c, after(j)[1])])

\* C4 witness: a guarded outer level before an inner one, run to completion:
\* some outer item was rejected, and items came out.
C4_Witness ==
  /\ GuardedThenFor /\ pc = "done" /\ out # <<>>
  /\ \E m \in 1 .. Len(log) : ~log[m].ok /\ Len(log[m].path) = 1

\* cs with every binder replaced by a filter that accepts what the binder's
\* patterns accept
AsFilters(cs) ==
  [i \in 1 .. Len(cs) |->
     IF cs[i].k = "if_let" THEN [cs[i] EXCEPT !.k = "if_accepts", !.bind = FALSE]
     ELSE cs[i]]

ItemsOnly(o) == [i \in 1 .. Len(o) |-> o[i].items]

\* C5. Binder-as-filter: a binder whose pattern does not match skips the
\* candidate as a false filter does: nothing more is evaluated for the
\* candidate, the iterator goes on with the next one, and the items returned
\* are those of the comprehension with each binder replaced by a filter with
\* the same accept set.
C5_BinderAsFilter ==
  /\ LET n == Len(log)
     IN /\ \A m \in 1 .. n - 1 :
             (log[m].ev = "if_let" /\ ~log[m].ok)
               => ~IsPrefix(log[m].path, log[n].path)
        /\ (n > 0 /\ log[n].ev = "if_let" /\ ~log[n].ok)
             => /\ pc \in {"next", "eval", "done"}
                /\ pc = "eval" => Path # log[n].path
  /\ (Shaped(clauses) /\ pc = "done")
       => ItemsOnly(out) = ItemsOnly(Loops(AsFilters(clauses), 1, NoEnv))

\* C5 witness: a run to completion in which a binder rejected one candidate
\* and accepted another, and items came out.
C5_Witness ==
  /\ pc = "done" /\ out # <<>>
  /\ \E m \in 1 .. Len(log) : log[m].ev = "if_let" /\ ~log[m].ok
  /\ \E m \in 1 .. Len(log) : log[m].ev = "if_let" /\ log[m].ok

HasEmptySource(cs) == \E i \in 1 .. Len(cs) : cs[i] = ForClause("p0")

\* C6. Idempotent emptiness: if the source of any level is empty, the
\* iterator returns nothing, whatever the other levels' sources hold.
C6_Emptiness ==
  /\ HasEmptySource(clauses) => ~RejectedWellWritten
  /\ (Shaped(clauses) /\ HasEmptySource(clauses)) => out = <<>>

\* C6 witness: a run to completion with four pairs outermost and an empty
\* source further in.
C6_Witness ==
  /\ pc = "done" /\ Shaped(clauses)
  /\ clauses[1] = ForClause("p4")
  /\ HasEmptySource(clauses)

BinderChainExample ==
  <<ForClause("p4"), IfLetClause("second", <<12 .. 14>>, FALSE), IfClause("first_gt_1")>>

PairsOut == [i \in 1 .. Len(out) |-> Last(out[i].items)]

\* C7. Binder-chain example, as amended: over the pairs (1,11), (2,12),
\* (3,13), (4,14), with if let 12..=14 = second and then if first > 1, the
\* pairs returned are exactly (2,12), (3,13), (4,14): every pair whose second
\* is in 12..=14 and whose first is above 1.
C7_BinderChain ==
  clauses = BinderChainExample =>
    /\ ~RejectedWellWritten
    /\ pc = "done" => PairsOut = << <<2, 12>>, <<3, 13>>, <<4, 14>> >>

\* C7 as claimed: the pairs returned are exactly (3,13), (4,14).
C7_AsClaimed ==
  (clauses = BinderChainExample /\ pc = "done") => PairsOut = << <<3, 13>>, <<4, 14>> >>

\* C7 witness: the example run to completion, three items out.
C7_Witness == clauses = BinderChainExample /\ pc = "done" /\ Len(out) = 3

\* The input lacks one of the separators: the one after the item expression
\* or the one after a clause that is not the last.
LacksSeparator ==
  /\ Shaped(clauses)
  /\ tokens # <<>>
  /\ tokens \in {Render(clauses, Headless)}
                  \cup {Render(clauses, Omitting(j)) : j \in 1 .. Len(clauses) - 1}

\* The macro has rejected the input, or is about to.
Refused == pc = "rejected" \/ (pc = "written" /\ ~Compiles(comp(tokens)))

C9_HeadlessAccepted ==
  (Shaped(clauses) /\ Len(clauses) = 1 /\ tokens = Render(clauses, Headless))
    => pc # "rejected"

\* The input is written for the macro's internal rules: it starts with @parse_if.
InternalCall(ts) == At(ts, 1, "@parse_if")

RECURSIVE Lowered(_)
\* The clauses of an expansion in the order it nests them: the for of each
\* adapter, then the if / if let expressions of its closure, outermost first.
Lowered(x) ==
  CASE x.op = "if" -> <<[cl |-> x.cond.cl, k |-> "if"]>> \o Lowered(x.then)
    [] x.op = "if_let" -> <<[cl |-> x.ex.cl, k |-> "if_let"]>> \o Lowered(x.then)
    [] x.op \in {"Some", "flatten"} -> Lowered(x.of)
    [] x.op \in {"map", "filter_map", "flat_map"} ->
         <<[cl |-> x.it.cl, k |-> "for"]>> \o Lowered(x.f)
    [] OTHER -> <<>>

\* The clauses as they are written.
Written(cs) == [i \in 1 .. Len(cs) |-> [cl |-> i, k |-> cs[i].k]]

\* A for is followed by a chain of filters and binders.
HasChain(cs) ==
  Shaped(cs) /\ \E i \in 2 .. Len(cs) : cs[i].k # "for" /\ cs[i - 1].k = "for"

\* The guards of the chain that ends before position c of cs (c = Len(cs) + 1:
\* the chain of the final level).
ChainBefore(cs, c) ==
  {g \in 1 .. c - 1 : cs[g].k # "for" /\ \A i \in g .. c - 1 : cs[i].k # "for"}

\* The position in the clause list of what an evaluation comes after: the
\* item expression comes last.
EventPos(e) == IF e.ev = "item" THEN Len(clauses) + 1 ELSE e.cl

\* The evaluations of guards for the candidate of evaluation n, before it.
GuardEventsOf(n) ==
  SelectSeq([m \in 1 .. n - 1 |-> log[m]],
            LAMBDA e : IsGuardEvent(e) /\ e.path = log[n].path)

\* C11. Guard chains in any order: after a for, every non-empty chain of if
\* and if let clauses, in any interleaving, at the final level or before
\* another for, is accepted; the expansion nests every clause once, in the
\* order written; a candidate reaches what follows the chain (the next
\* level's source expression, the item expression) after every clause of the
\* chain was evaluated for it, once, in order, and accepted it; and a
\* candidate is dropped iff one clause of its chain rejected it.
C11_GuardChains ==
  /\ HasChain(clauses) => ~RejectedWellWritten
  /\ (HasChain(clauses) /\ pc = "expanded") => Lowered(ast) = Written(clauses)
  /\ LET n == Len(log)
     IN (n > 0 /\ Shaped(clauses) /\ log[n].ev \in {"item", "source"}) =>
          LET gs == GuardEventsOf(n)
              chain == ChainBefore(clauses, EventPos(log[n]))
          IN /\ Len(gs) = Cardinality(chain)
             /\ \A j \in 1 .. Len(gs) :
                  /\ gs[j].ok
                  /\ gs[j].cl \in chain
                  /\ j > 1 => gs[j - 1].cl < gs[j].cl
  /\ (HasChain(clauses) /\ pc = "done") =>
       \A m \in 1 .. Len(log) :
         (IsGuardEvent(log[m]) /\ clauses[log[m].cl - 1].k = "for") =>
           ((\E r \in m .. Len(log) :
               /\ IsGuardEvent(log[r]) /\ log[r].path = log[m].path /\ ~log[r].ok)
            <=> ~\E f \in m + 1 .. Len(log) :
                   /\ log[f].ev \in {"item", "source"}
                   /\ log[f].path = log[m].path)

\* C11 witness: a run to completion where a binder, then a filter, stand
\* between two levels: the filter rejected a candidate the binder had
\* accepted, and items came out.
C11_Witness ==
  /\ pc = "done" /\ Len(clauses) = 4 /\ out # <<>>
  /\ clauses[2].k = "if_let" /\ clauses[3].k = "if" /\ clauses[4].k = "for"
  /\ \E m \in 1 .. Len(log) : log[m].cl = 3 /\ ~log[m].ok

\* Candidate a comes no later than candidate b: the paths in iteration order.
LexLeq(a, b) ==
  \/ IsPrefix(a, b)
  \/ \E i \in 1 .. Len(a) :
       /\ i <= Len(b) /\ a[i] < b[i]
       /\ \A k \in 1 .. i - 1 : a[k] = b[k]

Pulls == Len(SelectSeq(log, LAMBDA e : e.ev = "pull"))

\* C12. Pull-based laziness: between the construction and the first call of
\* next() nothing is evaluated or advanced; once next() has returned an item
\* nothing is evaluated before the next call of next(); and while the
\* consumer holds j items and is not pulling, every source stands at the
\* candidate that produced the j-th item, and nothing (guard, inner source
\* expression, item expression) has been evaluated for a later candidate.
C12_Laziness ==
  /\ \A m \in 1 .. Len(log) - 1 :
       /\ log[m].ev = "item" => log[m + 1].ev = "pull"
       /\ (m = 1 /\ Shaped(clauses)) => log[m + 1].ev = "pull"
  /\ Len(out) <= Pulls
  /\ pc = "idle" =>
       /\ cur = Nothing
       /\ out = <<>> => Len(log) = 1 /\ \A i \in 1 .. Len(stk) : stk[i].pos = 0
       /\ out # <<>> => /\ log[Len(log)].ev = "item"
                        /\ log[Len(log)].path = Path
       /\ \A m \in 1 .. Len(log) : LexLeq(log[m].path, Path)

\* C12 witness: the consumer holds two items of a guarded comprehension of
\* two levels, and both levels' sources have items left.
C12_Witness ==
  /\ pc = "idle" /\ Len(out) = 2 /\ Len(stk) = 2
  /\ Guards(clauses) # {}
  /\ \A i \in 1 .. 2 : stk[i].pos < Len(stk[i].items)

\* An endless outermost source, and only unguarded for levels under it.
UnguardedInf ==
  /\ Len(clauses) >= 2
  /\ clauses[1] = ForClause("cyc")
  /\ \A i \in 2 .. Len(clauses) : clauses[i].k = "for"

\* No level's source is empty for every item of the level that encloses it.
NoEmptyLevel == \A i \in 2 .. Len(clauses) : clauses[i].ex # "p0"

LevelOf(cs, g) == Cardinality({i \in 1 .. g : cs[i].k = "for"})

RECURSIVE BoundBefore(_, _, _)
\* What the binders of cs before position c have bound, in order, for the
\* candidate made of items: each binder binds the value of its expression
\* over the items of its own level and the levels around it.
BoundBefore(cs, c, items) ==
  IF c <= 1 THEN <<>>
  ELSE LET g == c - 1
           prev == BoundBefore(cs, g, items)
       IN IF cs[g].k = "if_let" /\ cs[g].bind
            THEN Append(prev, ExprValue(cs[g].ex,
                                        [items |-> SubSeq(items, 1, LevelOf(cs, g)),
                                         binds |-> prev]))
            ELSE prev

\* The position in the clause list of the expression about to be evaluated:
\* the clause of a guard or of a nested level's for, past the end for the
\* item expression.
CurPos == IF Lowered(cur) = <<>> THEN Len(clauses) + 1 ELSE Lowered(cur)[1].cl

\* C14. Binder scoping: where a later clause of the chain, a nested level's
\* source expression or guard, or the item expression is evaluated for a
\* candidate, the names of the binders before it hold exactly the values
\* those binders bound for this candidate (for its own items), and nothing
\* bound for another candidate; so do the names an inner iterator's closure
\* has captured, and the names each returned item was computed from.
C14_BinderScoping ==
  Shaped(clauses) =>
    /\ pc = "eval" => cenv.binds = BoundBefore(clauses, CurPos, cenv.items)
    /\ \A i \in 1 .. Len(stk) :
         stk[i].env.binds
           = BoundBefore(clauses, Adapter(stk[i].node).it.cl, stk[i].env.items)
    /\ \A i \in 1 .. Len(out) :
         out[i].binds = BoundBefore(clauses, Len(clauses) + 1, out[i].items)

\* C14 witness: a binder bound 1 for the candidate that gave the first item,
\* a nested level and its guard follow the binder, and the item expression
\* is about to be evaluated for a later candidate, for which the binder
\* bound 3.
C14_Witness ==
  /\ pc = "eval" /\ cur.op = "Some" /\ Returned(cur).op = "expr"
  /\ cenv.binds = <<3>>
  /\ out # <<>> /\ out[1].binds = <<1>>
  /\ Len(clauses) = 4
  /\ clauses[2].k = "if_let" /\ clauses[3].k = "for" /\ clauses[4].k = "if"

ItemEvents == {m \in 1 .. Len(log) : log[m].ev = "item"}

\* C15. Yield evaluation count: at every point of a run the item expression
\* has been evaluated as many times as items were returned; it is evaluated
\* at most once for a candidate, and never for a candidate that a guard of
\* its own or of an enclosing level rejected; over a whole run it is
\* evaluated once for each item the nested loops push.
C15_YieldCount ==
  /\ Cardinality(ItemEvents) = Len(out)
  /\ LET n == Len(log)
     IN (n > 0 /\ log[n].ev = "item") =>
          \A m \in 1 .. n - 1 :
            /\ log[m].path = log[n].path => log[m].ev # "item"
            /\ IsPrefix(log[m].path, log[n].path) => log[m].ok
  /\ (Shaped(clauses) /\ pc = "done")
       => Cardinality(ItemEvents) = Len(Loops(clauses, 1, NoEnv))

\* C15 witness: a run to completion of a guarded comprehension: candidates
\* were rejected, and two or more items returned.
C15_Witness ==
  /\ pc = "done" /\ Len(out) >= 2
  /\ Cardinality(ItemEvents) = Len(out)
  /\ \E m \in 1 .. Len(log) : IsGuardEvent(log[m]) /\ ~log[m].ok

\* The most items the source of a for clause holds, whatever the enclosing item.
MaxLen(c) ==
  LET lens == {Len(SourceItems(c.ex, WithItem(NoEnv, Pairs[j]))) : j \in 1 .. Len(Pairs)}
  IN CHOOSE n \in lens : \A k \in lens : k <= n

RECURSIVE Prod(_, _)
\* The product of the sizes of the levels of cs up to clause c.
Prod(cs, c) ==
  IF c = 0 THEN 1
  ELSE IF cs[c].k = "for" THEN MaxLen(cs[c]) * Prod(cs, c - 1)
  ELSE Prod(cs, c - 1)

\* How many times so far: an item of the level of clause c was bound and
\* handed to the level's closure; the source expression of clause c was evaluated.
Candidates(c) == Cardinality({m \in 1 .. Len(log) : log[m].ev = "bind" /\ log[m].cl = c})
Invocations(c) == Cardinality({m \in 1 .. Len(log) : log[m].ev = "source" /\ log[m].cl = c})

\* C16. Bounded work and termination, as amended: over finite sources the
\* pipeline, once expanded, is driven to its end; the candidates of a level
\* are at most the product of the sizes of that level and the levels around
\* it, and the level's continuation (its source expression evaluated, its
\* iterator built) is invoked at most the product of the sizes of the levels
\* around it: the whole run is bounded by the sum of these products over the
\* levels, not by the product of all the sizes.
C16_BoundedWork ==
  /\ [](Shaped(clauses) =>
          \A c \in Levels(clauses) :
            /\ Candidates(c) <= Prod(clauses, c)
            /\ Invocations(c) <= Prod(clauses, c - 1))
  /\ (pc = "expanded") ~> (pc = "done")

\* C16 as claimed: over the whole run the continuation invocations (the
\* source expressions evaluated, but for the outermost one), and the
\* candidate evaluations, are at most the product of the sizes of all levels.
C16_AsClaimed ==
  Shaped(clauses) =>
    LET all == Prod(clauses, Len(clauses))
        Sum(f(_)) == LET RECURSIVE S(_)
                         S(c) == IF c = 0 THEN 0
                                 ELSE (IF clauses[c].k = "for" THEN f(c) ELSE 0) + S(c - 1)
                     IN S(Len(clauses))
    IN /\ Sum(Candidates) <= all
       /\ Sum(Invocations) - 1 <= all

\* C16 witness: a run to completion over three levels of two items each:
\* 2 + 4 + 8 candidates, and 2 + 4 invocations of a continuation.
C16_Witness ==
  /\ pc = "done" /\ Len(clauses) = 3
  /\ \A i \in 1 .. 3 : clauses[i] = ForClause("p2")
  /\ Candidates(1) = 2 /\ Candidates(2) = 4 /\ Candidates(3) = 8
  /\ Invocations(2) = 2 /\ Invocations(3) = 4

\* The clause of the second level of cs, or the position past its end.
NextLevel(cs) ==
  LET fs == {c \in 2 .. Len(cs) : cs[c].k = "for"}
  IN IF fs = {} THEN Len(cs) + 1 ELSE CHOOSE c \in fs : \A d \in fs : c <= d

RECURSIVE Innermost(_)
\* What the innermost if / if let of a closure body holds.
Innermost(x) == IF x.op \in {"if", "if_let"} THEN Innermost(x.then) ELSE x

\* C17. Lowering case analysis: the first level (for, guard chain,
\* continuation) expands to exactly one of four shapes: map of the item
\* expression iff the chain and the continuation are empty; filter_map iff
\* only the chain is non-empty; flat_map over the expansion of the
\* continuation iff only the continuation is non-empty; and filter_map whose
\* innermost guard holds Some(the expansion of the continuation), under one
\* flatten, iff both are non-empty.
C17_LoweringCases ==
  (Shaped(clauses) /\ pc = "expanded") =>
    LET c == NextLevel(clauses)
        guarded == c > 2
        nested == c <= Len(clauses)
        item == ExprNode(ExprTok(0))
        lowered == comp(<<ExprTok(0), Tok(";")>> \o ClausesFrom(clauses, c, Plain))
    IN /\ ast.op \in {"map", "filter_map", "flat_map", "flatten"}
       /\ ast.op = "map" <=> (~guarded /\ ~nested)
       /\ ast.op = "filter_map" <=> (guarded /\ ~nested)
       /\ ast.op = "flat_map" <=> (~guarded /\ nested)
       /\ ast.op = "flatten" <=> (guarded /\ nested)
       /\ ast.op = "map" => ast.f = item
       /\ ast.op = "filter_map" => Innermost(ast.f) = SomeNode(item)
       /\ ast.op = "flat_map" => ast.f = lowered /\ IsPipeline(lowered)
       /\ ast.op = "flatten" =>
            /\ ast.of.op = "filter_map"
            /\ Innermost(ast.of.f) = SomeNode(lowered)
            /\ IsPipeline(lowered)
       /\ Adapter(ast).it = ExprTok(1)
       /\ Adapter(ast).pat = PatTok(1, 1)

\* C17 witness: a binder chain before a guarded second level has been
\* expanded: a filter_map under a flatten, whose innermost guard holds the
\* filter_map of the second level.
C17_Witness ==
  /\ Shaped(clauses) /\ pc = "expanded"
  /\ Len(clauses) >= 3
  /\ clauses[2].k = "if_let"
  /\ ast.op = "flatten"
  /\ Innermost(ast.of.f).of.op = "filter_map"

\* The evaluations of a nested level's source expression: the invocations of
\* a continuation.
IsInvocation(e) == e.ev = "source" /\ e.cl > 1

\* C18. Continuation invocation count: a level's continuation (its source
\* expression evaluated, its iterator built) is invoked for an item of the
\* enclosing level that was bound and that every clause of the enclosing
\* chain accepted, at most once per enclosing item; over a whole run every
\* enclosing item that no clause rejected has its invocation, and the second
\* level's continuation is invoked as many times as items of the outermost
\* source pass the first chain.
C18_InvocationCount ==
  /\ LET n == Len(log)
     IN (n > 0 /\ IsInvocation(log[n])) =>
          /\ \E m \in 1 .. n - 1 : log[m].ev = "bind" /\ log[m].path = log[n].path
          /\ \A m \in 1 .. n - 1 :
               log[m].path = log[n].path => ~IsInvocation(log[m]) /\ log[m].ok
  /\ (Shaped(clauses) /\ pc = "done") =>
       LET c == NextLevel(clauses)
           xs == SourceItems(clauses[1].ex, NoEnv)
       IN /\ \A m \in 1 .. Len(log) :
               (log[m].ev = "bind" /\ \E d \in log[m].cl + 1 .. Len(clauses) :
                                         clauses[d].k = "for")
                 => ((\E f \in m + 1 .. Len(log) :
                        IsInvocation(log[f]) /\ log[f].path = log[m].path)
                     <=> ~\E r \in m + 1 .. Len(log) :
                            log[r].path = log[m].path /\ ~log[r].ok)
          /\ c <= Len(clauses) =>
               Invocations(c)
                 = Cardinality({j \in 1 .. Len(xs) :
                                  ChainResult(clauses, 2, c, WithItem(NoEnv, xs[j])) # <<>>})

\* C18 witness: a run to completion where the second level's continuation was
\* invoked for two outer items and not for an outer item that a binder rejected.
C18_Witness ==
  /\ pc = "done" /\ Shaped(clauses)
  /\ NextLevel(clauses) <= Len(clauses)
  /\ Invocations(NextLevel(clauses)) = 2
  /\ \E m \in 1 .. Len(log) :
       log[m].ev = "if_let" /\ ~log[m].ok /\ Len(log[m].path) = 1

\* C19. Eager outermost source: the source expression of the outermost for
\* is evaluated when the comp!(...) expression is evaluated, before any call
\* of next() and whether or not one follows, and never again; nothing else
\* (no pattern bound, no guard, inner source expression or item expression)
\* is evaluated until next() is called.
C19_EagerOutermost ==
  /\ pc \in {"written", "expanded", "rejected", "option"} => log = <<>> /\ stk = <<>>
  /\ pc \in {"idle", "next", "eval", "done"} =>
       /\ log # <<>>
       /\ log[1] = [ev |-> "source", cl |-> 1, path |-> <<>>, ok |-> TRUE]
       /\ Len(log) >= 2 => log[2].ev = "pull"
       /\ \A m \in 2 .. Len(log) : ~(log[m].ev = "source" /\ log[m].cl = 1)
  /\ (pc = "idle" /\ Pulls = 0) =>
       /\ Len(log) = 1
       /\ Len(stk) = 1 /\ stk[1].pos = 0
       /\ stk[1].items = SourceItems(clauses[1].ex, NoEnv)
       /\ cur = Nothing /\ cenv = NoEnv /\ out = <<>>

\* C19 witness: the iterator of a comprehension with a guard and a second
\* level has been built and not pulled: its outermost source, of four pairs,
\* has been evaluated.
C19_Witness ==
  /\ pc = "idle" /\ Pulls = 0
  /\ Len(log) = 1 /\ log[1].ev = "source"
  /\ Len(stk[1].items) = 4
  /\ Guards(clauses) # {} /\ Cardinality(Levels(clauses)) >= 2

====
